---- MODULE Spec2Model ----
(***************************************************************************)
(* Model of pretix.base.services.quotas.calculate_availabilities: the      *)
(* seed loop, the four counting passes (orders, vouchers, waiting list,    *)
(* cart positions) with their early returns, and the final loop.           *)
(*                                                                         *)
(* The tables the function reads (Quota and its two membership relations,  *)
(* OrderPosition, Voucher, WaitingListEntry, CartPosition) are variables   *)
(* drawn in Init from bounded sets of rows; the function's arguments and   *)
(* locals are variables too, and each pass is one step.                    *)
(***************************************************************************)
EXTENDS Integers, Sequences, FiniteSets, TLC

\* ------------------------------------------------------------------ bounds
\* Largest bounded quota size drawn in Init.
MaxSize == 2

\* ------------------------------------------------------- values of the code
\* SQL NULL / Python None for an id or a timestamp column (ids and times are >= 1).
NULL == 0
\* Python None as a quota size (q.size is None) and as the remaining count of
\* an unlimited quota (Quota.AVAILABILITY_OK, None).
None == -1
\* The reference time now_dt of the call; timestamps are 1 (before), 2, 3 (after).
now_dt == 2
Times == {now_dt - 1, now_dt, now_dt + 1}

\* Order.STATUS_PAID, STATUS_PENDING, STATUS_CANCELED and the
\* Quota.AVAILABILITY_* values of pretix.base.models, by name.
STATUS_PAID == "p"
STATUS_PENDING == "n"
STATUS_CANCELED == "c"
AVAILABILITY_GONE == "GONE"
AVAILABILITY_ORDERED == "ORDERED"
AVAILABILITY_RESERVED == "RESERVED"
AVAILABILITY_OK == "OK"

\* ------------------------------------------------------------- the universe
\* All quotas and rows belong to the one event 1.
QuotaIds == {1, 2}
SubEventIds == {1, 2}
\* Item 1 has no variations; item 2 has the single variation 1.
\* A row references item 1 without variation, or variation 1 of item 2.
Targets == {[item_id |-> 1, variation_id |-> NULL], [item_id |-> 2, variation_id |-> 1]}
ItemIds == {1, 2}
VariationIds == {1}


VARIABLES
    \* the tables read by the call
    quotas,            \* Quota rows with their items / variations relations
    order_positions,   \* OrderPosition rows (with the status of their order)
    vouchers,          \* Voucher rows
    waitinglist,       \* WaitingListEntry rows
    cart_positions,    \* CartPosition rows
    \* the arguments of the call
    count_waitinglist, ignore_closed, analyze,
    \* the locals of the call
    result,            \* dict quota -> (availability, left)
    size_left,         \* Counter quota -> left
    analyze_result,    \* defaultdict(Counter) quota -> key -> count
    q_items,           \* rows (quota_id, item_id) of Quota.items.through
    q_vars,            \* rows (quota_id, itemvariation_id) of Quota.variations.through
    \* where the call is, and the exception that ended it ("" for none)
    pc, exc

tables == <<quotas, order_positions, vouchers, waitinglist, cart_positions>>
args == <<count_waitinglist, ignore_closed, analyze>>
locals == <<result, size_left, analyze_result, q_items, q_vars>>

VARIABLES
    \* what refresh_quota_caches reads and writes
    clock,             \* now(), in hours
    log_entries,       \* LogEntry rows (event, datetime)
    event_rows,        \* the pks of the Event rows
    quota_rows,        \* Quota rows: event, sub-event dates, cached_availability_*
    computation,       \* quota -> what its availability computation yields on the data as it stands
    workers,           \* how many invocations of the task the worker pool runs at once
    \* the invocations of refresh_quota_caches: each one's position and locals
    sweep

sweep_vars == <<clock, log_entries, event_rows, quota_rows, computation, workers, sweep>>

VARIABLES
    \* what other requests do to the tables while a call runs
    data_before,       \* the tables as they stood when the call started
    mutated_at         \* where the call was when a request changed them ("" for never)

mutation_vars == <<data_before, mutated_at>>

VARIABLES
    \* what CachedCountries.__iter__ reads and writes
    countries_first,   \* the setting: the codes to list first
    first_break,       \* the option: the label of the separator ("" for none)
    cached_lists,      \* process -> its _cached_lists: cache key -> list
    cache,             \* the shared cache: cache key -> list
    iteration          \* process -> the iteration it runs: position, language, val, what it yielded

country_vars == <<countries_first, first_break, cached_lists, cache, iteration>>

\* The state of the other operations, which a step of one operation leaves alone.
calc_vars == <<tables, args, locals, pc, exc>>
other_vars == <<sweep_vars, mutation_vars, country_vars>>
vars == <<calc_vars, other_vars>>

\* ---------------------------------------------------------------- helpers
\* Sum of f[x] over the finite set S.
RECURSIVE SumOver(_, _)
SumOver(S, f) ==
    IF S = {} THEN 0
    ELSE LET x == CHOOSE y \in S : TRUE IN f[x] + SumOver(S \ {x}, f)

\* All the orders in which a store may return the finite set S of rows.
RECURSIVE Orderings(_)
Orderings(S) ==
    IF S = {} THEN {<<>>}
    ELSE UNION {{<<x>> \o t : t \in Orderings(S \ {x})} : x \in S}

\* A Counter: reads 0 at a key never written.
CounterGet(c, k) == IF k \in DOMAIN c THEN c[k] ELSE 0
CounterAdd(c, k, n) ==
    [x \in DOMAIN c \cup {k} |-> CounterGet(c, x) + (IF x = k THEN n ELSE 0)]
EmptyCounter == [k \in {} |-> 0]

\* field__in=S as the store evaluates it: never true of a NULL field, also
\* when S holds None (NULL IN (NULL) is not true in SQL).
SqlIn(x, S) == x # NULL /\ x \in S

\* q not in result
NotInResult(q, res) == q \notin DOMAIN res
\* not any(q not in result for q in quotas)
AllResolved(res) == \A q \in QuotaIds : ~NotInResult(q, res)

\* {q.event_id for q in quotas}
events == {quotas[q].event_id : q \in QuotaIds}
\* {q.subevent_id for q in quotas if q not in result}
SubeventSet(res) == {quotas[q].subevent_id : q \in {x \in QuotaIds : NotInResult(x, res)}}
\* {i['item_id'] for i in q_items if ids_to_quotas[i['quota_id']] not in result}
ItemSet(res) == {m[2] : m \in {x \in q_items : NotInResult(x[1], res)}}
\* {i['itemvariation_id'] for i in q_vars if ids_to_quotas[i['quota_id']] not in result}
VariationSet(res) == {m[2] : m \in {x \in q_vars : NotInResult(x[1], res)}}
\* item_to_quota[item_id], var_to_quota[variation_id] (a defaultdict(list):
\* the empty list at a key never appended to)
item_to_quota(i) == {m[1] : m \in {x \in q_items : x[2] = i}}
var_to_quota(v) == {m[1] : m \in {x \in q_vars : x[2] = v}}

\* ------------------------------------------------------- the four lookups
\* The tables the lookups query, as they stand.
Database ==
    [order_positions |-> order_positions, vouchers |-> vouchers,
     waitinglist |-> waitinglist, cart_positions |-> cart_positions]

\* order__status=[Order.STATUS_PAID, Order.STATUS_PENDING] is an exact lookup
\* (not __in) against a list: the CharField prepares the right-hand side with
\* str(), so a row passes only if its status is this text.
OrderStatusFilter == "['p', 'n']"

\* The rows of op_lookup before grouping, queried on the tables db.
OpRowsIn(db, res) ==
    {r \in db.order_positions :
        /\ r.status = OrderStatusFilter
        /\ r.event_id \in events
        /\ SqlIn(r.subevent_id, SubeventSet(res))
        /\ \/ (r.variation_id = NULL /\ SqlIn(r.item_id, ItemSet(res)))
           \/ SqlIn(r.variation_id, VariationSet(res))}

OpRows(res) == OpRowsIn(Database, res)

\* .values('order__status', 'item_id', 'subevent_id', 'variation_id').annotate(c=Count('*'))
op_lookup_in(db, res) ==
    LET rows == OpRowsIn(db, res)
    IN {[order__status |-> r.status, item_id |-> r.item_id,
         subevent_id |-> r.subevent_id, variation_id |-> r.variation_id,
         c |-> Cardinality({x \in rows : /\ x.status = r.status
                                         /\ x.item_id = r.item_id
                                         /\ x.subevent_id = r.subevent_id
                                         /\ x.variation_id = r.variation_id})]
        : r \in rows}

op_lookup(res) == op_lookup_in(Database, res)

\* GREATEST(max_usages - redeemed, 0) (MAX on sqlite)
Greatest(a, b) == IF a >= b THEN a ELSE b

\* The rows of v_lookup before grouping, queried on the tables db.
VoucherRowsIn(db, res) ==
    {r \in db.vouchers :
        /\ r.event_id \in events
        /\ SqlIn(r.subevent_id, SubeventSet(res))
        /\ r.block_quota
        /\ (r.valid_until = NULL \/ r.valid_until >= now_dt)
        /\ \/ (r.variation_id = NULL /\ SqlIn(r.item_id, ItemSet(res)))
           \/ SqlIn(r.variation_id, VariationSet(res))
           \/ SqlIn(r.quota_id, QuotaIds)}

VoucherRows(res) == VoucherRowsIn(Database, res)

\* .values('subevent_id', 'item_id', 'quota_id', 'variation_id').annotate(free=Sum(...))
v_lookup_in(db, res) ==
    LET rows == VoucherRowsIn(db, res)
        free == [r \in rows |-> Greatest(r.max_usages - r.redeemed, 0)]
    IN {[subevent_id |-> r.subevent_id, item_id |-> r.item_id,
         quota_id |-> r.quota_id, variation_id |-> r.variation_id,
         free |-> SumOver({x \in rows : /\ x.subevent_id = r.subevent_id
                                        /\ x.item_id = r.item_id
                                        /\ x.quota_id = r.quota_id
                                        /\ x.variation_id = r.variation_id}, free)]
        : r \in rows}

v_lookup(res) == v_lookup_in(Database, res)

\* The rows of w_lookup before grouping, queried on the tables db. & binds
\* tighter than |: the filter is
\* (event & voucher__isnull & subevent & variation__isnull & item) | variation.
WaitingRowsIn(db, res) ==
    {r \in db.waitinglist :
        \/ /\ r.event_id \in events
           /\ r.voucher_id = NULL
           /\ SqlIn(r.subevent_id, SubeventSet(res))
           /\ r.variation_id = NULL
           /\ SqlIn(r.item_id, ItemSet(res))
        \/ SqlIn(r.variation_id, VariationSet(res))}

\* .values('item_id', 'subevent_id', 'variation_id').annotate(c=Count('*'))
CountLines(rows) ==
    {[item_id |-> r.item_id, subevent_id |-> r.subevent_id,
      variation_id |-> r.variation_id,
      c |-> Cardinality({x \in rows : /\ x.item_id = r.item_id
                                      /\ x.subevent_id = r.subevent_id
                                      /\ x.variation_id = r.variation_id})]
     : r \in rows}

WaitingRows(res) == WaitingRowsIn(Database, res)

w_lookup_in(db, res) == CountLines(WaitingRowsIn(db, res))
w_lookup(res) == w_lookup_in(Database, res)

\* The voucher a cart position is joined to (voucher_id is a foreign key),
\* in the tables db.
VoucherOfIn(db, r) == CHOOSE v \in db.vouchers : v.id = r.voucher_id
VoucherOf(r) == VoucherOfIn(Database, r)

\* voucher__isnull | voucher__block_quota=False | voucher__valid_until__lt=now_dt
CartVoucherFilterIn(db, r) ==
    \/ r.voucher_id = NULL
    \/ VoucherOfIn(db, r).block_quota = FALSE
    \/ (VoucherOfIn(db, r).valid_until # NULL /\ VoucherOfIn(db, r).valid_until < now_dt)
CartVoucherFilter(r) == CartVoucherFilterIn(Database, r)

\* The rows of cart_lookup before grouping, queried on the tables db. & binds
\* tighter than |: the filter is
\* (event & subevent & expires & voucher & variation__isnull & item) | variation.
CartRowsIn(db, res) ==
    {r \in db.cart_positions :
        \/ /\ r.event_id \in events
           /\ SqlIn(r.subevent_id, SubeventSet(res))
           /\ r.expires >= now_dt
           /\ CartVoucherFilterIn(db, r)
           /\ r.variation_id = NULL
           /\ SqlIn(r.item_id, ItemSet(res))
        \/ SqlIn(r.variation_id, VariationSet(res))}

CartRows(res) == CartRowsIn(Database, res)

cart_lookup_in(db, res) == CountLines(CartRowsIn(db, res))
cart_lookup(res) == cart_lookup_in(Database, res)

\* ------------------------------------------------------------ the loop body
\* Affects without the test q not in result.
AffectsResolved(q, subevent_id, res) ==
    quotas[q].subevent_id = subevent_id

\* Affects without the test of the sub-event.
AffectsAnySubevent(q, subevent_id, res) ==
    NotInResult(q, res)

\* if q.subevent_id == line['subevent_id'] and q not in result
\* (Python equality: None == None holds)
Affects(q, subevent_id, res) ==
    quotas[q].subevent_id = subevent_id /\ NotInResult(q, res)

\* The locals a pass works on, with the exception raised so far ("" for none).
Locals == [size_left |-> size_left, result |-> result,
           analyze_result |-> analyze_result, exc |-> ""]

\* ApplyLine where a quota that is exhausted gets what is left of it as its
\* remaining count, not 0.
ApplyLineKeepsLeft(st, line) ==
    LET hit == {q \in line.qs : Affects(q, line.subevent_id, st.result)}
        left == [q \in DOMAIN st.size_left \cup hit |->
                    CounterGet(st.size_left, q) - (IF q \in hit THEN line.amount ELSE 0)]
        crossed == {q \in hit : left[q] <= 0}
    IN IF st.exc # "" THEN st
       ELSE IF line.raises # "" THEN [st EXCEPT !.exc = line.raises]
       ELSE IF \E q \in hit : quotas[q].size = None THEN [st EXCEPT !.exc = "TypeError"]
       ELSE IF analyze
       THEN [st EXCEPT !.size_left = left,
                       !.analyze_result =
                           [q \in DOMAIN st.analyze_result \cup hit |->
                               IF q \in hit
                               THEN CounterAdd(IF q \in DOMAIN st.analyze_result
                                               THEN st.analyze_result[q] ELSE EmptyCounter,
                                               line.key, line.amount)
                               ELSE st.analyze_result[q]]]
       ELSE [st EXCEPT !.size_left = left,
                       !.result = [q \in DOMAIN st.result \cup crossed |->
                                      IF q \in crossed THEN <<line.availability, left[q]>>
                                      ELSE st.result[q]]]

\* One line of a lookup applied to its quotas qs:
\*     size_left[q] -= amount
\*     if analyze: analyze_result[q][key] += amount
\*     elif size_left[q] <= 0: result[q] = availability, 0
\* size_left[q] is None exactly when q.size is None (the seed loop stores
\* q.size and the first subtraction from None raises TypeError).
ApplyLine(st, line) ==
    LET hit == {q \in line.qs : Affects(q, line.subevent_id, st.result)}
        left == [q \in DOMAIN st.size_left \cup hit |->
                    CounterGet(st.size_left, q) - (IF q \in hit THEN line.amount ELSE 0)]
        crossed == {q \in hit : left[q] <= 0}
    IN IF st.exc # "" THEN st
       ELSE IF line.raises # "" THEN [st EXCEPT !.exc = line.raises]
       ELSE IF \E q \in hit : quotas[q].size = None THEN [st EXCEPT !.exc = "TypeError"]
       ELSE IF analyze
       THEN [st EXCEPT !.size_left = left,
                       !.analyze_result =
                           [q \in DOMAIN st.analyze_result \cup hit |->
                               IF q \in hit
                               THEN CounterAdd(IF q \in DOMAIN st.analyze_result
                                               THEN st.analyze_result[q] ELSE EmptyCounter,
                                               line.key, line.amount)
                               ELSE st.analyze_result[q]]]
       ELSE [st EXCEPT !.size_left = left,
                       !.result = [q \in DOMAIN st.result \cup crossed |->
                                      IF q \in crossed THEN <<line.availability, 0>>
                                      ELSE st.result[q]]]

\* for line in lines: ...
RECURSIVE ApplyLines(_, _)
ApplyLines(st, lines) ==
    IF lines = <<>> THEN st
    ELSE ApplyLines(ApplyLine(st, Head(lines)), Tail(lines))

\* The key of sorted(op_lookup, key=lambda li: li['order__status'], reverse=True):
\* strings compare by their first differing character ('p' > 'n' > 'c' > '[').
StatusOrd(s) ==
    CASE s = "p" -> 112 [] s = "n" -> 110 [] s = "c" -> 99 [] OTHER -> 91

\* sorted(..., reverse=True): descending by key, equal keys in their given order.
RECURSIVE SortedByStatus(_)
SortedByStatus(lines) ==
    IF lines = <<>> THEN <<>>
    ELSE LET top == CHOOSE k \in {StatusOrd(lines[i].order__status) : i \in DOMAIN lines} :
                        \A i \in DOMAIN lines : StatusOrd(lines[i].order__status) <= k
             IsTop(l) == StatusOrd(l.order__status) = top
             IsRest(l) == StatusOrd(l.order__status) # top
         IN SelectSeq(lines, IsTop) \o SortedByStatus(SelectSeq(lines, IsRest))

\* The body of the orders loop for one line (lines 72-85).
OrderLine(line) ==
    [qs |-> IF line.variation_id # NULL THEN var_to_quota(line.variation_id)
            ELSE item_to_quota(line.item_id),
     subevent_id |-> line.subevent_id, amount |-> line.c,
     key |-> "order_" \o line.order__status,
     availability |-> IF line.order__status = STATUS_PAID THEN AVAILABILITY_GONE
                      ELSE AVAILABILITY_ORDERED,
     raises |-> ""]

\* The body of the vouchers loop for one line (lines 115-127): a line with a
\* variation reads line['itemvariation_id'], a key the projection does not have.
VoucherLine(line) ==
    [qs |-> IF line.variation_id # NULL THEN {}
            ELSE IF line.item_id # NULL THEN item_to_quota(line.item_id)
            ELSE {line.quota_id},
     subevent_id |-> line.subevent_id, amount |-> line.free,
     key |-> "vouchers", availability |-> AVAILABILITY_ORDERED,
     raises |-> IF line.variation_id # NULL THEN "KeyError" ELSE ""]

\* The body of the waiting list loop for one line (lines 144-154).
WaitingLine(line) ==
    [qs |-> IF line.variation_id # NULL THEN var_to_quota(line.variation_id)
            ELSE item_to_quota(line.item_id),
     subevent_id |-> line.subevent_id, amount |-> line.c,
     key |-> "waitinglist", availability |-> AVAILABILITY_ORDERED,
     raises |-> ""]

\* The body of the cart loop for one line (lines 175-185).
CartLine(line) ==
    [qs |-> IF line.variation_id # NULL THEN var_to_quota(line.variation_id)
            ELSE item_to_quota(line.item_id),
     subevent_id |-> line.subevent_id, amount |-> line.c,
     key |-> "waitinglist", availability |-> AVAILABILITY_RESERVED,
     raises |-> ""]

\* ------------------------------------------------------------ the actions
\* SeedStatus with its two tests in the other order (the size before closed).
SeedStatusSizeFirst(q) ==
    IF quotas[q].size = None /\ ~analyze THEN AVAILABILITY_OK
    ELSE IF quotas[q].closed /\ ~ignore_closed /\ ~analyze THEN AVAILABILITY_ORDERED
    ELSE "open"

\* SeedStatus where ignore_closed is not consulted.
SeedStatusAlwaysClosed(q) ==
    IF quotas[q].closed /\ ~analyze THEN AVAILABILITY_ORDERED
    ELSE IF quotas[q].size = None /\ ~analyze THEN AVAILABILITY_OK
    ELSE "open"

\* Lines 28-33: what the seed loop decides for quota q: an availability
\* written to result, or "open" for size_left[q] = q.size.
SeedStatus(q) ==
    IF quotas[q].closed /\ ~ignore_closed /\ ~analyze THEN AVAILABILITY_ORDERED
    ELSE IF quotas[q].size = None /\ ~analyze THEN AVAILABILITY_OK
    ELSE "open"

\* Lines 27-33: the quotas the seed loop leaves open, and the result it
\* writes for the others.
SeedOpen == {q \in QuotaIds : SeedStatus(q) = "open"}
SeedResult ==
    [q \in QuotaIds \ SeedOpen |->
        IF SeedStatus(q) = AVAILABILITY_ORDERED
        THEN <<AVAILABILITY_ORDERED, 0>>
        ELSE <<AVAILABILITY_OK, None>>]

\* Lines 25-56: the seed loop, the first early return, and the two reads of
\* the membership relations for the quotas the seed loop left open.
Seed ==
    /\ pc = "start"
    /\ LET open == SeedOpen
           res == SeedResult
       IN /\ result' = res
          /\ size_left' = [q \in open |-> quotas[q].size]
          /\ IF ~analyze /\ AllResolved(res)
             THEN /\ pc' = "returned"
                  /\ UNCHANGED <<q_items, q_vars>>
             ELSE /\ pc' = "orders"
                  /\ q_items' = {m \in open \X ItemIds : m[2] \in quotas[m[1]].items}
                  /\ q_vars' = {m \in open \X VariationIds : m[2] \in quotas[m[1]].variations}
    /\ UNCHANGED <<tables, args, analyze_result, exc, other_vars>>

\* The end of a pass: the exception propagates, or the locals are kept and
\* the call returns early (if not analyze and not any(q not in result ...))
\* or goes on to the pass `next`.
EndPass(st, early, next) ==
    IF st.exc # ""
    THEN /\ pc' = "raised"
         /\ exc' = st.exc
         /\ UNCHANGED <<result, size_left, analyze_result>>
    ELSE /\ result' = st.result
         /\ size_left' = st.size_left
         /\ analyze_result' = st.analyze_result
         /\ pc' = IF early /\ ~analyze /\ AllResolved(st.result) THEN "returned" ELSE next
         /\ exc' = exc

\* Lines 61-88: count paid and pending orders.
OrdersPass ==
    /\ pc = "orders"
    /\ \E rows \in Orderings(op_lookup(result)) :
         LET lines == SortedByStatus(rows)
         IN EndPass(ApplyLines(Locals, [i \in DOMAIN lines |-> OrderLine(lines[i])]),
                    TRUE, "vouchers")
    /\ UNCHANGED <<tables, args, q_items, q_vars, other_vars>>

\* VouchersPass where the waiting list pass follows whatever count_waitinglist is.
VouchersPassThenWaitinglist ==
    /\ pc = "vouchers"
    /\ \E lines \in Orderings(v_lookup(result)) :
         EndPass(ApplyLines(Locals, [i \in DOMAIN lines |-> VoucherLine(lines[i])]),
                 TRUE, "waitinglist")
    /\ UNCHANGED <<tables, args, q_items, q_vars, other_vars>>

\* Lines 96-130: count blocking vouchers.
VouchersPass ==
    /\ pc = "vouchers"
    /\ \E lines \in Orderings(v_lookup(result)) :
         EndPass(ApplyLines(Locals, [i \in DOMAIN lines |-> VoucherLine(lines[i])]),
                 TRUE, IF count_waitinglist THEN "waitinglist" ELSE "cart")
    /\ UNCHANGED <<tables, args, q_items, q_vars, other_vars>>

\* Lines 133-157: count the waiting list (if count_waitinglist).
WaitinglistPass ==
    /\ pc = "waitinglist"
    /\ \E lines \in Orderings(w_lookup(result)) :
         EndPass(ApplyLines(Locals, [i \in DOMAIN lines |-> WaitingLine(lines[i])]),
                 TRUE, "cart")
    /\ UNCHANGED <<tables, args, q_items, q_vars, other_vars>>

\* CartPass where the lookup of the waiting list pass is read once more.
CartPassReadsWaitinglist ==
    /\ pc = "cart"
    /\ \E lines \in Orderings(w_lookup(result)) :
         EndPass(ApplyLines(Locals, [i \in DOMAIN lines |-> CartLine(lines[i])]),
                 FALSE, "final")
    /\ UNCHANGED <<tables, args, q_items, q_vars, other_vars>>

\* Lines 160-185: count cart positions.
CartPass ==
    /\ pc = "cart"
    /\ \E lines \in Orderings(cart_lookup(result)) :
         EndPass(ApplyLines(Locals, [i \in DOMAIN lines |-> CartLine(lines[i])]),
                 FALSE, "final")
    /\ UNCHANGED <<tables, args, q_items, q_vars, other_vars>>

\* Lines 190-192: what is left open and has size_left > 0 is OK.
FinalResult(res, left) ==
    LET rest == {q \in QuotaIds : NotInResult(q, res) /\ CounterGet(left, q) > 0}
    IN [q \in DOMAIN res \cup rest |->
           IF q \in rest THEN <<AVAILABILITY_OK, left[q]>> ELSE res[q]]

\* Lines 187-194: return analyze_result, or mark what is left open and has
\* size_left > 0 as OK and return result.
Final ==
    /\ pc = "final"
    /\ result' = IF analyze THEN result ELSE FinalResult(result, size_left)
    /\ pc' = "returned"
    /\ UNCHANGED <<tables, args, size_left, analyze_result, q_items, q_vars, exc, other_vars>>

Next == Seed \/ OrdersPass \/ VouchersPass \/ WaitinglistPass \/ CartPass \/ Final

\* ------------------------------------------- the call as one computation
\* One pass of the call on the run st (the locals, with where the call is):
\* nothing once the call has returned or raised; else the lines are applied
\* in the order given, and the call raises, returns early or runs on.
RunPass(st, lines, early) ==
    IF st.pc # "run" THEN st
    ELSE LET n == ApplyLines(st, lines)
         IN IF n.exc # "" THEN [st EXCEPT !.pc = "raised", !.exc = n.exc]
            ELSE [n EXCEPT !.pc = IF early /\ ~analyze /\ AllResolved(n.result)
                                  THEN "returned" ELSE "run"]

\* The order in which the store returns the lines S, when it has but one.
OneOrdering(S) == CHOOSE lines \in Orderings(S) : TRUE

\* lines, each as the loop body of the pass named takes it.
Through(pass, lines) ==
    [i \in DOMAIN lines |->
        CASE pass = "orders"      -> OrderLine(lines[i])
          [] pass = "vouchers"    -> VoucherLine(lines[i])
          [] pass = "waitinglist" -> WaitingLine(lines[i])
          [] pass = "cart"        -> CartLine(lines[i])]

\* Lines 25-194: the whole call, when its four lookups read the tables
\* reads.orders, reads.vouchers, reads.waitinglist and reads.cart and the
\* store returns lines in the one order it has: where the call ends
\* ("returned" or "raised") and the result it returns.
Outcome(reads) ==
    LET s0 == [size_left |-> [q \in SeedOpen |-> quotas[q].size],
               result |-> SeedResult,
               analyze_result |-> [q \in {} |-> EmptyCounter],
               exc |-> "",
               pc |-> IF ~analyze /\ AllResolved(SeedResult) THEN "returned" ELSE "run"]
        s1 == RunPass(s0, Through("orders",
                  SortedByStatus(OneOrdering(op_lookup_in(reads.orders, s0.result)))), TRUE)
        s2 == RunPass(s1, Through("vouchers",
                  OneOrdering(v_lookup_in(reads.vouchers, s1.result))), TRUE)
        s3 == IF count_waitinglist
              THEN RunPass(s2, Through("waitinglist",
                       OneOrdering(w_lookup_in(reads.waitinglist, s2.result))), TRUE)
              ELSE s2
        s4 == RunPass(s3, Through("cart",
                  OneOrdering(cart_lookup_in(reads.cart, s3.result))), FALSE)
    IN IF s4.pc = "run"
       THEN [pc |-> "returned", exc |-> "",
             result |-> IF analyze THEN s4.result
                        ELSE FinalResult(s4.result, s4.size_left)]
       ELSE [pc |-> s4.pc, exc |-> s4.exc, result |-> s4.result]

\* The four lookups all read the tables db.
ReadsOf(db) == [orders |-> db, vouchers |-> db, waitinglist |-> db, cart |-> db]

\* ------------------------------------------------------ the initial states
Sizes == {None} \cup 0..MaxSize
Subevents == {NULL} \cup SubEventIds

QuotaRow(size, closed, subevent_id, items, variations) ==
    [event_id |-> 1, size |-> size, closed |-> closed, subevent_id |-> subevent_id,
     items |-> items, variations |-> variations]

OrderPositionRow(id, status, t, subevent_id) ==
    [id |-> id, event_id |-> 1, status |-> status, item_id |-> t.item_id,
     variation_id |-> t.variation_id, subevent_id |-> subevent_id]

\* A voucher row; scope gives its item_id, variation_id and quota_id.
VoucherRow(id, scope, subevent_id, block_quota, valid_until, max_usages, redeemed) ==
    [id |-> id, event_id |-> 1, subevent_id |-> subevent_id, block_quota |-> block_quota,
     valid_until |-> valid_until, item_id |-> scope.item_id,
     variation_id |-> scope.variation_id, quota_id |-> scope.quota_id,
     max_usages |-> max_usages, redeemed |-> redeemed]

WaitingListEntryRow(id, voucher_id, t, subevent_id) ==
    [id |-> id, event_id |-> 1, voucher_id |-> voucher_id, item_id |-> t.item_id,
     variation_id |-> t.variation_id, subevent_id |-> subevent_id]

CartPositionRow(id, expires, voucher_id, t, subevent_id) ==
    [id |-> id, event_id |-> 1, expires |-> expires, voucher_id |-> voucher_id,
     item_id |-> t.item_id, variation_id |-> t.variation_id, subevent_id |-> subevent_id]

\* No invocation of refresh_quota_caches exists: nothing for it to read, no worker.
NoSweep ==
    /\ clock = 0
    /\ log_entries = {}
    /\ event_rows = {}
    /\ quota_rows = <<>>
    /\ computation = <<>>
    /\ workers = 0
    /\ sweep = <<>>

\* No request changes the tables while the call runs.
NoMutation ==
    /\ data_before = <<>>
    /\ mutated_at = "never"

\* No process iterates CachedCountries.
NoCountries ==
    /\ countries_first = <<>>
    /\ first_break = ""
    /\ cached_lists = <<>>
    /\ cache = <<>>
    /\ iteration = <<>>

\* The state of the other operations while calculate_availabilities is studied.
OthersIdle == NoSweep /\ NoMutation /\ NoCountries

InitCall ==
    /\ count_waitinglist \in BOOLEAN
    /\ analyze \in BOOLEAN
    /\ result = [q \in {} |-> <<>>]
    /\ size_left = EmptyCounter
    /\ analyze_result = [q \in {} |-> EmptyCounter]
    /\ q_items = {}
    /\ q_vars = {}
    /\ pc = "start"
    /\ exc = ""
    /\ OthersIdle

\* The voucher scoped to the product t.
ItemScope(t) == [item_id |-> t.item_id, variation_id |-> t.variation_id, quota_id |-> NULL]
\* The voucher scoped to the quota q.
QuotaScope(q) == [item_id |-> NULL, variation_id |-> NULL, quota_id |-> q]
\* A foreign key to a row of the table rows, or NULL.
Reference(rows) == {NULL} \cup {r.id : r \in rows}
\* The scopes a voucher may have: a product, a variation, a quota.
VoucherScopes == {ItemScope(t) : t \in Targets} \cup {QuotaScope(q) : q \in QuotaIds}
\* The product of item i.
TargetOf(i) == CHOOSE t \in Targets : t.item_id = i
\* (max_usages, redeemed): one free usage, none, over-redeemed, two free.
Usages == {<<1, 0>>, <<1, 1>>, <<1, 2>>, <<2, 0>>}

\* Every shape of quota 1 (size, closed, with or without products) beside an
\* open or closed quota 2, against at most one countable row per table, all
\* for one product and one sub-event.
InitQuotaShapes ==
    /\ \E s1 \in Sizes, c1 \in BOOLEAN, full \in BOOLEAN, s2 \in {None, MaxSize}, c2 \in BOOLEAN :
         quotas = [q \in QuotaIds |->
                     IF q = 1
                     THEN QuotaRow(s1, c1, 1, IF full THEN ItemIds ELSE {},
                                   IF full THEN VariationIds ELSE {})
                     ELSE QuotaRow(s2, c2, 1, ItemIds, VariationIds)]
    /\ \E t \in Targets :
         /\ order_positions \in SUBSET {OrderPositionRow(1, STATUS_PAID, t, 1)}
         /\ vouchers \in SUBSET {VoucherRow(1, ItemScope(t), 1, TRUE, NULL, 1, 0)}
         /\ waitinglist \in SUBSET {WaitingListEntryRow(1, NULL, t, 1)}
         /\ cart_positions \in SUBSET {CartPositionRow(1, now_dt, NULL, t, 1)}
    /\ ignore_closed \in BOOLEAN
    /\ InitCall

\* Two open bounded quotas (of size 1 and MaxSize) of any two sub-events (or
\* none) that cover the same products, against at most one countable row per table, each row of any
\* sub-event (or none).
InitSubevents ==
    /\ \E e1 \in Subevents, e2 \in Subevents :
         quotas = [q \in QuotaIds |->
                     IF q = 1 THEN QuotaRow(1, FALSE, e1, ItemIds, VariationIds)
                     ELSE QuotaRow(MaxSize, FALSE, e2, ItemIds, VariationIds)]
    /\ \E t \in Targets :
         /\ order_positions \in
               {{}} \cup {{OrderPositionRow(1, STATUS_PAID, t, e)} : e \in Subevents}
         /\ vouchers \in
               {{}} \cup {{VoucherRow(1, sc, e, TRUE, NULL, 1, 0)} :
                             sc \in {ItemScope(t), QuotaScope(1)}, e \in Subevents}
         /\ waitinglist \in
               {{}} \cup {{WaitingListEntryRow(1, NULL, t, e)} : e \in Subevents}
         /\ cart_positions \in
               {{}} \cup {{CartPositionRow(1, now_dt, NULL, t, e)} : e \in Subevents}
    /\ ignore_closed = FALSE
    /\ InitCall

\* Two open bounded quotas of one sub-event, against at most one voucher of
\* any scope, blocking flag, expiry and usage, at most one waiting list entry
\* and one cart position, with or without that voucher, the cart position of
\* any expiry.
InitRowShapes ==
    /\ \E s1 \in 1..MaxSize :
         quotas = [q \in QuotaIds |->
                     IF q = 1 THEN QuotaRow(s1, FALSE, 1, ItemIds, VariationIds)
                     ELSE QuotaRow(MaxSize, FALSE, 1, ItemIds, VariationIds)]
    /\ \E t \in Targets :
         /\ order_positions = {}
         /\ vouchers \in
               {{}} \cup {{VoucherRow(1, sc, 1, b, u, n[1], n[2])} :
                             sc \in {ItemScope(t), QuotaScope(1)}, b \in BOOLEAN,
                             u \in {NULL} \cup Times, n \in Usages}
         /\ waitinglist \in
               {{}} \cup {{WaitingListEntryRow(1, v, t, 1)} : v \in Reference(vouchers)}
         /\ cart_positions \in
               {{}} \cup {{CartPositionRow(1, x, v, t, 1)} :
                             x \in Times, v \in Reference(vouchers)}
    /\ ignore_closed = FALSE
    /\ InitCall

\* Two open bounded quotas of one sub-event, against at most two order
\* positions of any status, and at most one countable row per other table.
InitOrders ==
    /\ \E s1 \in 1..MaxSize :
         quotas = [q \in QuotaIds |->
                     IF q = 1 THEN QuotaRow(s1, FALSE, 1, ItemIds, VariationIds)
                     ELSE QuotaRow(MaxSize, FALSE, 1, ItemIds, VariationIds)]
    /\ \E t \in Targets :
         /\ \E sa \in {STATUS_PAID, STATUS_PENDING, STATUS_CANCELED},
               sb \in {STATUS_PAID, STATUS_PENDING, STATUS_CANCELED} :
              order_positions \in (SUBSET {OrderPositionRow(1, sa, t, 1),
                                           OrderPositionRow(2, sb, t, 1)}) \ {{}}
         /\ vouchers \in SUBSET {VoucherRow(1, ItemScope(t), 1, TRUE, NULL, 1, 0)}
         /\ waitinglist \in SUBSET {WaitingListEntryRow(1, NULL, t, 1)}
         /\ cart_positions \in SUBSET {CartPositionRow(1, now_dt, NULL, t, 1)}
    /\ ignore_closed = FALSE
    /\ InitCall

\* Two open bounded quotas of one sub-event that cover every product, against
\* at most two blocking vouchers of any scope with one or two free usages, and
\* at most one waiting list entry and one cart position per product: a
\* lookup returns up to two lines, in either order.
InitOrderings ==
    /\ \E s1 \in 1..MaxSize :
         quotas = [q \in QuotaIds |->
                     IF q = 1 THEN QuotaRow(s1, FALSE, 1, ItemIds, VariationIds)
                     ELSE QuotaRow(MaxSize, FALSE, 1, ItemIds, VariationIds)]
    /\ order_positions = {}
    /\ \E sa \in VoucherScopes, sb \in VoucherScopes, na \in {1, 2}, nb \in {1, 2} :
         vouchers \in SUBSET {VoucherRow(1, sa, 1, TRUE, NULL, na, 0),
                              VoucherRow(2, sb, 1, TRUE, NULL, nb, 0)}
    /\ waitinglist \in SUBSET {WaitingListEntryRow(i, NULL, TargetOf(i), 1) : i \in ItemIds}
    /\ cart_positions \in SUBSET {CartPositionRow(i, now_dt, NULL, TargetOf(i), 1) : i \in ItemIds}
    /\ ignore_closed = FALSE
    /\ InitCall

Init == InitQuotaShapes \/ InitSubevents \/ InitRowShapes \/ InitOrders \/ InitOrderings

Spec == Init /\ [][Next]_vars

\* ================================= requests that change the tables meanwhile
\* The call holds no transaction: between two of its steps another request
\* may commit. One request at most is taken here.
CallRuns == pc \in {"start", "orders", "vouchers", "waitinglist", "cart", "final"}

\* A checkout turns the cart position r into a position of a pending order.
ConvertCartToOrder(r) ==
    /\ CallRuns /\ mutated_at = ""
    /\ r \in cart_positions
    /\ cart_positions' = cart_positions \ {r}
    /\ order_positions' = order_positions \cup
           {[id |-> 3, event_id |-> r.event_id, status |-> STATUS_PENDING,
             item_id |-> r.item_id, variation_id |-> r.variation_id,
             subevent_id |-> r.subevent_id]}
    /\ mutated_at' = pc
    /\ UNCHANGED <<quotas, vouchers, waitinglist, args, locals, pc, exc, data_before, sweep_vars, country_vars>>

\* The waiting list entry w is given a new blocking voucher for its product.
AssignVoucher(w) ==
    /\ CallRuns /\ mutated_at = ""
    /\ w \in waitinglist /\ w.voucher_id = NULL
    /\ vouchers' = vouchers \cup
           {[id |-> 3, event_id |-> w.event_id, subevent_id |-> w.subevent_id,
             block_quota |-> TRUE, valid_until |-> NULL, item_id |-> w.item_id,
             variation_id |-> w.variation_id, quota_id |-> NULL,
             max_usages |-> 1, redeemed |-> 0]}
    /\ waitinglist' = (waitinglist \ {w}) \cup {[w EXCEPT !.voucher_id = 3]}
    /\ mutated_at' = pc
    /\ UNCHANGED <<quotas, order_positions, cart_positions, args, locals, pc, exc,
                   data_before, sweep_vars, country_vars>>

MutationNext ==
    \/ Next
    \/ \E r \in cart_positions : ConvertCartToOrder(r)
    \/ \E w \in waitinglist : AssignVoucher(w)

\* A quota of size 1 and one of size MaxSize, open, of one sub-event, covering
\* every product; at most one waiting list entry without voucher and one
\* cart position, each for either product; no order and no voucher yet.
MutationInit ==
    /\ quotas = [q \in QuotaIds |->
                    QuotaRow(IF q = 1 THEN 1 ELSE MaxSize, FALSE, 1, ItemIds, VariationIds)]
    /\ order_positions = {}
    /\ vouchers = {}
    /\ waitinglist \in {{}} \cup {{WaitingListEntryRow(1, NULL, t, 1)} : t \in Targets}
    /\ cart_positions \in {{}} \cup {{CartPositionRow(1, now_dt, NULL, t, 1)} : t \in Targets}
    /\ count_waitinglist \in BOOLEAN
    /\ ignore_closed = FALSE
    /\ analyze \in BOOLEAN
    /\ result = [q \in {} |-> <<>>]
    /\ size_left = EmptyCounter
    /\ analyze_result = [q \in {} |-> EmptyCounter]
    /\ q_items = {}
    /\ q_vars = {}
    /\ pc = "start"
    /\ exc = ""
    /\ data_before = Database
    /\ mutated_at = ""
    /\ NoSweep
    /\ NoCountries

MutationSpec == MutationInit /\ [][MutationNext]_vars

\* The tables as the lookup of the pass named read them: as they stood
\* before the request, if the pass ran before it.
PassIndex(name) ==
    CASE name = "start" -> 0 [] name = "orders" -> 1 [] name = "vouchers" -> 2
      [] name = "waitinglist" -> 3 [] name = "cart" -> 4 [] OTHER -> 5
ReadBy(name) ==
    IF mutated_at \in {"", "never"} THEN Database
    ELSE IF PassIndex(name) < PassIndex(mutated_at) THEN data_before
    ELSE Database
ReadsOfCall ==
    [orders |-> ReadBy("orders"), vouchers |-> ReadBy("vouchers"),
     waitinglist |-> ReadBy("waitinglist"), cart |-> ReadBy("cart")]

\* =================================================== refresh_quota_caches
\* Times of the task are in hours. timedelta(days=7), timedelta(hours=2) and
\* timedelta(days=14) of lines 207, 219 and 222-223.
ActiveDays == 7
StaleHours == 2
SubeventDays == 14
Hours(days) == 24 * days

\* now() when the first invocation starts.
Now0 == 500
\* The clock advances by at most this many hours while the invocations run.
MaxTicks == 1
\* At most this many log entries are written while the invocations run.
MaxActivities == 1

EventIds == {1, 2}
\* The invocations of the task that may exist at once.
Sweeps == {1, 2}

\* The greatest element of the non-empty set S of times: Max('datetime').
MaxOf(S) == CHOOSE t \in S : \A u \in S : u <= t

\* Lines 206-210: the events with a log entry of the last 7 days, each with
\* the time of its latest such entry, as read at time t.
Active(t) ==
    LET recent == {l \in log_entries : l.datetime > t - Hours(ActiveDays)}
    IN {[event |-> e,
         last_activity |-> MaxOf({l.datetime : l \in {x \in recent : x.event = e}})]
        : e \in {l.event : l \in recent}}

\* Selected without the third test of the first filter (the 2-hour ceiling).
SelectedWithoutCeiling(a, t) ==
    {q \in QuotaIds :
        /\ quota_rows[q].event_id = a.event
        /\ \/ quota_rows[q].cached_availability_time = NULL
           \/ quota_rows[q].cached_availability_time < a.last_activity
        /\ \/ quota_rows[q].subevent_id = NULL
           \/ /\ quota_rows[q].subevent_id # NULL
              /\ quota_rows[q].date_to # NULL
              /\ quota_rows[q].date_to >= t - Hours(SubeventDays)
           \/ /\ quota_rows[q].subevent_id # NULL
              /\ quota_rows[q].date_from >= t - Hours(SubeventDays)}

\* Lines 216-224: the quotas of the event of a that the two filters select at
\* time t (date_from and date_to are those of the quota's sub-event).
Selected(a, t) ==
    {q \in QuotaIds :
        /\ quota_rows[q].event_id = a.event
        /\ \/ quota_rows[q].cached_availability_time = NULL
           \/ quota_rows[q].cached_availability_time < a.last_activity
           \/ quota_rows[q].cached_availability_time < t - StaleHours
        /\ \/ quota_rows[q].subevent_id = NULL
           \/ /\ quota_rows[q].subevent_id # NULL
              /\ quota_rows[q].date_to # NULL
              /\ quota_rows[q].date_to >= t - Hours(SubeventDays)
           \/ /\ quota_rows[q].subevent_id # NULL
              /\ quota_rows[q].date_from >= t - Hours(SubeventDays)}

\* The locals of an invocation that is not running.
IdleSweep == [pc |-> "idle", active |-> {}, quotas |-> {}, q |-> NULL,
              computed |-> [state |-> "", number |-> NULL, time |-> NULL]]

\* Lines 197-199: the periodic signal queues the task and a worker takes it.
Trigger(p) ==
    /\ p <= workers
    /\ sweep[p].pc \in {"idle", "raised"}
    /\ sweep' = [sweep EXCEPT ![p] = [IdleSweep EXCEPT !.pc = "start"]]
    /\ UNCHANGED <<clock, log_entries, event_rows, quota_rows, computation, workers, calc_vars, mutation_vars, country_vars>>

\* Lines 206-211: the query of the active events is run.
ListActive(p) ==
    /\ sweep[p].pc = "start"
    /\ sweep' = [sweep EXCEPT ![p].pc = "events", ![p].active = Active(clock)]
    /\ UNCHANGED <<clock, log_entries, event_rows, quota_rows, computation, workers, calc_vars, mutation_vars, country_vars>>

\* Line 211, the loop is exhausted: the task returns.
Return(p) ==
    /\ sweep[p].pc = "events"
    /\ sweep[p].active = {}
    /\ sweep' = [sweep EXCEPT ![p] = IdleSweep]
    /\ UNCHANGED <<clock, log_entries, event_rows, quota_rows, computation, workers, calc_vars, mutation_vars, country_vars>>

\* Lines 211-215: the next active event has no Event row (Event.DoesNotExist): continue.
SkipEvent(p) ==
    /\ sweep[p].pc = "events"
    /\ \E a \in sweep[p].active :
         /\ a.event \notin event_rows
         /\ sweep' = [sweep EXCEPT ![p].active = @ \ {a}]
    /\ UNCHANGED <<clock, log_entries, event_rows, quota_rows, computation, workers, calc_vars, mutation_vars, country_vars>>

\* Lines 211-225: the next active event is found and its quotas are selected.
SelectQuotas(p) ==
    /\ sweep[p].pc = "events"
    /\ \E a \in sweep[p].active :
         /\ a.event \in event_rows
         /\ sweep' = [sweep EXCEPT ![p].active = @ \ {a},
                                   ![p].quotas = Selected(a, clock),
                                   ![p].pc = IF Selected(a, clock) = {} THEN "events"
                                             ELSE "quotas"]
    /\ UNCHANGED <<clock, log_entries, event_rows, quota_rows, computation, workers, calc_vars, mutation_vars, country_vars>>

\* Lines 225-226, q.availability(), first half: the availability of the next
\* selected quota is computed from the data as it stands. An exception of
\* the computation is caught nowhere in the task and ends the invocation.
Compute(p) ==
    /\ sweep[p].pc = "quotas"
    /\ \E q \in sweep[p].quotas :
         sweep' = [sweep EXCEPT
                     ![p].quotas = @ \ {q},
                     ![p].q = q,
                     ![p].pc = IF computation[q].raises THEN "raised" ELSE "write",
                     ![p].computed = IF computation[q].raises THEN @
                                     ELSE [state |-> computation[q].state,
                                           number |-> computation[q].number,
                                           time |-> clock]]
    /\ UNCHANGED <<clock, log_entries, event_rows, quota_rows, computation, workers, calc_vars, mutation_vars, country_vars>>

\* The cache write as two invocations would order it by the time of the computation.
CacheWriteIfNewer(row, computed) ==
    IF row.cached_availability_time # NULL /\ row.cached_availability_time > computed.time
    THEN row
    ELSE [row EXCEPT !.cached_availability_state = computed.state,
                     !.cached_availability_number = computed.number,
                     !.cached_availability_time = computed.time]

\* The write of the Availability Cache: an unconditional overwrite of the
\* quota's (status, remaining, computedAt).
CacheWrite(row, computed) ==
    [row EXCEPT !.cached_availability_state = computed.state,
                !.cached_availability_number = computed.number,
                !.cached_availability_time = computed.time]

\* Line 226, q.availability(), second half: the result is written to the
\* cache; the loop goes on to the next quota or the next event.
Write(p) ==
    /\ sweep[p].pc = "write"
    /\ quota_rows' = [quota_rows EXCEPT ![sweep[p].q] = CacheWrite(@, sweep[p].computed)]
    /\ sweep' = [sweep EXCEPT ![p].pc = IF sweep[p].quotas = {} THEN "events" ELSE "quotas"]
    /\ UNCHANGED <<clock, log_entries, event_rows, computation, workers, calc_vars, mutation_vars, country_vars>>

\* ---- what happens around the task
\* Time passes.
Tick ==
    /\ clock < Now0 + MaxTicks
    /\ clock' = clock + 1
    /\ UNCHANGED <<log_entries, event_rows, quota_rows, computation, workers, sweep, calc_vars, mutation_vars, country_vars>>

\* Activity in the event of quota q (an order, a cart position): a log entry
\* is written and the availability of the quota changes.
Activity(q) ==
    /\ quota_rows[q].event_id \in event_rows
    /\ [event |-> quota_rows[q].event_id, datetime |-> clock] \notin log_entries
    /\ Cardinality({l \in log_entries : l.datetime >= Now0}) < MaxActivities
    /\ log_entries' = log_entries \cup {[event |-> quota_rows[q].event_id, datetime |-> clock]}
    /\ computation' = [computation EXCEPT
                         ![q].state = IF @ = AVAILABILITY_OK THEN AVAILABILITY_GONE
                                      ELSE AVAILABILITY_OK,
                         ![q].number = 1 - @]
    /\ UNCHANGED <<clock, event_rows, quota_rows, workers, sweep, calc_vars, mutation_vars, country_vars>>

SweepNext ==
    \/ \E p \in Sweeps : Trigger(p)
    \/ \E p \in Sweeps : ListActive(p)
    \/ \E p \in Sweeps : Return(p)
    \/ \E p \in Sweeps : SkipEvent(p)
    \/ \E p \in Sweeps : SelectQuotas(p)
    \/ \E p \in Sweeps : Compute(p)
    \/ \E p \in Sweeps : Write(p)
    \/ Tick
    \/ \E q \in QuotaIds : Activity(q)

\* ---- the initial states of the task
\* No call of calculate_availabilities is studied.
NoCall ==
    /\ quotas = <<>>
    /\ order_positions = {}
    /\ vouchers = {}
    /\ waitinglist = {}
    /\ cart_positions = {}
    /\ count_waitinglist = TRUE
    /\ ignore_closed = FALSE
    /\ analyze = FALSE
    /\ result = [q \in {} |-> <<>>]
    /\ size_left = EmptyCounter
    /\ analyze_result = [q \in {} |-> EmptyCounter]
    /\ q_items = {}
    /\ q_vars = {}
    /\ pc = "idle"
    /\ exc = ""

\* A quota's sub-event with its dates: none; one that started 10 hours ago;
\* one that started 400 hours ago and ended 10 hours ago; one that ended 390
\* hours ago; one that started 400 hours ago and has no end.
SubeventShapes ==
    {[subevent_id |-> NULL, date_from |-> NULL, date_to |-> NULL],
     [subevent_id |-> 1, date_from |-> Now0 - 10, date_to |-> NULL],
     [subevent_id |-> 1, date_from |-> Now0 - 400, date_to |-> Now0 - 10],
     [subevent_id |-> 1, date_from |-> Now0 - 400, date_to |-> Now0 - 390],
     [subevent_id |-> 1, date_from |-> Now0 - 400, date_to |-> NULL]}

\* cached_availability_time: never computed, 3 hours ago, 1 hour ago.
CacheTimes == {NULL, Now0 - 3, Now0 - 1}

SweepQuotaRow(event_id, shape, time) ==
    [event_id |-> event_id, subevent_id |-> shape.subevent_id,
     date_from |-> shape.date_from, date_to |-> shape.date_to,
     cached_availability_state |-> IF time = NULL THEN "" ELSE AVAILABILITY_OK,
     cached_availability_number |-> IF time = NULL THEN NULL ELSE 1,
     cached_availability_time |-> time]

\* The availability computation of a quota: it raises, or yields (OK, 1).
Computation(raises) == [raises |-> raises, state |-> AVAILABILITY_OK, number |-> 1]

LogEntryRow(event, datetime) == [event |-> event, datetime |-> datetime]

SweepInitCommon ==
    /\ clock = Now0
    /\ sweep = [p \in Sweeps |-> IdleSweep]
    /\ NoCall
    /\ NoMutation
    /\ NoCountries

\* One worker; quota 1 of event 1 with any sub-event and any cache time,
\* quota 2 of event 2 without sub-event, computed 3 hours ago; the latest log
\* entry of event 1 is of 200, 5 or 2 hours ago, or it has none; event 2 has
\* a log entry of 200 hours ago or one of 5 hours ago beside an entry for no
\* event; every computation succeeds.
SweepInitSelection ==
    /\ workers = 1
    /\ event_rows = EventIds
    /\ \E sh \in SubeventShapes, t1 \in CacheTimes :
         quota_rows = [q \in QuotaIds |->
                         IF q = 1 THEN SweepQuotaRow(1, sh, t1)
                         ELSE SweepQuotaRow(2, CHOOSE x \in SubeventShapes : x.subevent_id = NULL,
                                            Now0 - 3)]
    /\ \E l1 \in SUBSET {LogEntryRow(1, Now0 - 200)} \cup
                  {{LogEntryRow(1, Now0 - 200), LogEntryRow(1, t)} : t \in {Now0 - 5, Now0 - 2}},
          l2 \in {{LogEntryRow(2, Now0 - 200)},
                  {LogEntryRow(2, Now0 - 5), LogEntryRow(NULL, Now0 - 2)}} :
         log_entries = l1 \cup l2
    /\ computation = [q \in QuotaIds |-> Computation(FALSE)]
    /\ SweepInitCommon

\* One worker; two quotas without sub-event, never computed, of one event or
\* of two, each with a computation that succeeds or raises; both events are
\* active and either may have no Event row.
SweepInitFailures ==
    /\ workers = 1
    /\ event_rows \in SUBSET EventIds
    /\ \E e2 \in EventIds :
         quota_rows = [q \in QuotaIds |->
                         SweepQuotaRow(IF q = 1 THEN 1 ELSE e2,
                                       CHOOSE x \in SubeventShapes : x.subevent_id = NULL, NULL)]
    /\ log_entries = {LogEntryRow(1, Now0 - 2), LogEntryRow(2, Now0 - 2)}
    /\ \E r1 \in BOOLEAN, r2 \in BOOLEAN :
         computation = [q \in QuotaIds |-> Computation(IF q = 1 THEN r1 ELSE r2)]
    /\ SweepInitCommon

\* Two workers; two quotas of event 1 without sub-event, quota 1 never
\* computed or computed 3 hours ago, quota 2 computed 1 hour ago; every
\* computation succeeds.
SweepInitOverlap ==
    /\ workers = 2
    /\ event_rows = EventIds
    /\ \E t1 \in {NULL, Now0 - 3} :
         quota_rows = [q \in QuotaIds |->
                         SweepQuotaRow(1, CHOOSE x \in SubeventShapes : x.subevent_id = NULL,
                                       IF q = 1 THEN t1 ELSE Now0 - 1)]
    /\ log_entries = {LogEntryRow(1, Now0 - 5)}
    /\ computation = [q \in QuotaIds |-> Computation(FALSE)]
    /\ SweepInitCommon

SweepInit == SweepInitSelection \/ SweepInitFailures \/ SweepInitOverlap

SweepSpec == SweepInit /\ [][SweepNext]_vars

\* A step of the invocation p.
SweepStep(p) ==
    \/ Trigger(p) \/ ListActive(p) \/ Return(p) \/ SkipEvent(p)
    \/ SelectQuotas(p) \/ Compute(p) \/ Write(p)

\* The periodic signal keeps coming and a worker that holds the task goes on
\* with it: every invocation takes its next step.
SweepFairSpec == SweepSpec /\ \A p \in Sweeps : WF_vars(SweepStep(p))

\* ------------------------------------------------- CachedCountries.__iter__
\* The processes that serve requests; each has its own _cached_lists.
Procs == {1, 2}
\* What get_language() returns.
Languages == {"en", "de"}
\* self.countries: the entries (code, name); a name is given by its place in
\* the order of the names.
Countries == {<<"AT", 1>>, <<"FR", 2>>, <<"DE", 3>>}
\* translate_pair(code): the entry of the code.
translate_pair(code) == CHOOSE c \in Countries : c[1] = code

\* cache_key = "countries:all:{}".format(get_language())
CacheKey(lang) == <<"countries:all", lang>>

\* sorted(countries, key=lambda c: c[1])
RECURSIVE SortedByName(_)
SortedByName(S) ==
    IF S = {} THEN <<>>
    ELSE LET c == CHOOSE x \in S : \A y \in S : x[2] <= y[2]
         IN  <<c>> \o SortedByName(S \ {c})

\* What the uncached branch yields before the sorted list: the entries of
\* countries_first, then the separator if there is one.
YieldedFirst ==
    [i \in 1..Len(countries_first) |-> translate_pair(countries_first[i])]
    \o (IF countries_first # <<>> /\ first_break # ""
        THEN <<(<<"", first_break>>)>> ELSE <<>>)

IdleIteration == [pc |-> "idle", language |-> "en", val |-> <<>>, yielded |-> <<>>, served |-> ""]

\* A request in language lang starts to iterate: the list of _cached_lists,
\* if the key is there (lines 15-18).
IterBegin(p, lang) ==
    /\ iteration[p].pc \in {"idle", "done", "raised"}
    /\ iteration' = [iteration EXCEPT ![p] =
           IF CacheKey(lang) \in DOMAIN cached_lists[p]
           THEN [pc |-> "done", language |-> lang, val |-> <<>>,
                 yielded |-> cached_lists[p][CacheKey(lang)], served |-> "_cached_lists"]
           ELSE [pc |-> "get", language |-> lang, val |-> <<>>,
                 yielded |-> <<>>, served |-> ""]]
    /\ UNCHANGED <<countries_first, first_break, cached_lists, cache>>
    /\ UNCHANGED <<calc_vars, sweep_vars, mutation_vars>>

\* val = cache.get(cache_key); if val: keep it in _cached_lists and yield it
\* (lines 20-24).
IterCacheGet(p) ==
    /\ iteration[p].pc = "get"
    /\ LET key == CacheKey(iteration[p].language)
           val == IF key \in DOMAIN cache THEN cache[key] ELSE <<>>
       IN  IF val # <<>>
           THEN /\ cached_lists' = [cached_lists EXCEPT ![p] =
                       [k \in DOMAIN @ \cup {key} |-> IF k = key THEN val ELSE @[k]]]
                /\ iteration' = [iteration EXCEPT ![p].pc = "done", ![p].val = val,
                                     ![p].yielded = val, ![p].served = "cache"]
           ELSE /\ iteration' = [iteration EXCEPT ![p].pc = "compute"]
                /\ UNCHANGED cached_lists
    /\ UNCHANGED <<countries_first, first_break, cache>>
    /\ UNCHANGED <<calc_vars, sweep_vars, mutation_vars>>

\* Lines 26-40: for "en" the entries of countries_first and the separator
\* are yielded and val is the sorted list; any other language raises
\* ValueError.
IterCompute(p) ==
    /\ iteration[p].pc = "compute"
    /\ iteration' = [iteration EXCEPT ![p] =
           IF @.language = "en"
           THEN [@ EXCEPT !.pc = "store", !.yielded = YieldedFirst,
                          !.val = SortedByName(Countries)]
           ELSE [@ EXCEPT !.pc = "raised"]]
    /\ UNCHANGED <<countries_first, first_break, cached_lists, cache>>
    /\ UNCHANGED <<calc_vars, sweep_vars, mutation_vars>>

\* Lines 42-44: val goes to _cached_lists and to the cache and is yielded.
IterStore(p) ==
    /\ iteration[p].pc = "store"
    /\ LET key == CacheKey(iteration[p].language)
           val == iteration[p].val
       IN  /\ cached_lists' = [cached_lists EXCEPT ![p] =
                  [k \in DOMAIN @ \cup {key} |-> IF k = key THEN val ELSE @[k]]]
           /\ cache' = [k \in DOMAIN cache \cup {key} |-> IF k = key THEN val ELSE cache[k]]
           /\ iteration' = [iteration EXCEPT ![p].pc = "done", ![p].served = "computed",
                                ![p].yielded = @ \o val]
    /\ UNCHANGED <<countries_first, first_break>>
    /\ UNCHANGED <<calc_vars, sweep_vars, mutation_vars>>

\* The entry of the cache times out (it was set for 30 days, line 43).
CacheExpire(key) ==
    /\ key \in DOMAIN cache
    /\ cache' = [k \in DOMAIN cache \ {key} |-> cache[k]]
    /\ UNCHANGED <<countries_first, first_break, cached_lists, iteration>>
    /\ UNCHANGED <<calc_vars, sweep_vars, mutation_vars>>

CountriesNext ==
    \/ \E p \in Procs, lang \in Languages : IterBegin(p, lang)
    \/ \E p \in Procs : IterCacheGet(p)
    \/ \E p \in Procs : IterCompute(p)
    \/ \E p \in Procs : IterStore(p)
    \/ \E lang \in Languages : CacheExpire(CacheKey(lang))

\* Fresh processes and an empty cache; any setting of countries_first and of
\* the first_break option.
CountriesInit ==
    /\ countries_first \in {<<>>, <<"DE">>, <<"DE", "AT">>}
    /\ first_break \in {"", "-----"}
    /\ cached_lists = [p \in Procs |-> <<>>]
    /\ cache = <<>>
    /\ iteration = [p \in Procs |-> IdleIteration]
    /\ NoCall
    /\ NoSweep
    /\ NoMutation

CountriesSpec == CountriesInit /\ [][CountriesNext]_vars

\* ============================================================ properties
\* Every table holds a row (the call has rows of every source to count).
HasRows == order_positions # {} /\ vouchers # {} /\ waitinglist # {} /\ cart_positions # {}

\* C1: a closed quota, in a call with ignore_closed=false and analyze=false
\* that returns, has the result (ORDERED, 0), whatever its size and whatever
\* rows the tables hold.
C1_ClosedIsOrdered ==
    (pc = "returned" /\ ~analyze /\ ~ignore_closed) =>
        \A q \in QuotaIds :
            quotas[q].closed =>
                q \in DOMAIN result /\ result[q] = <<AVAILABILITY_ORDERED, 0>>

\* A call that ran all its passes over rows of every table, for a closed
\* bounded quota beside an open one, has returned.
C1_Witness ==
    /\ pc = "returned" /\ ~analyze /\ ~ignore_closed /\ HasRows
    /\ q_items # {}
    /\ \E q \in QuotaIds : quotas[q].closed /\ quotas[q].size \in 1..MaxSize

\* C2 as stated: an unlimited quota has the result (OK, None) in every call
\* with analyze=false that returns, for every closed flag and ignore_closed.
C2_UnlimitedIsOk ==
    (pc = "returned" /\ ~analyze) =>
        \A q \in QuotaIds :
            quotas[q].size = None =>
                q \in DOMAIN result /\ result[q] = <<AVAILABILITY_OK, None>>

\* C2 amended: an unlimited quota that is not closed, or in a call with
\* ignore_closed=true, has the result (OK, None) in every call with
\* analyze=false that returns (a closed one is (ORDERED, 0) by C1).
C2_OpenUnlimitedIsOk ==
    (pc = "returned" /\ ~analyze) =>
        \A q \in QuotaIds :
            (quotas[q].size = None /\ (~quotas[q].closed \/ ignore_closed)) =>
                q \in DOMAIN result /\ result[q] = <<AVAILABILITY_OK, None>>

\* A call with ignore_closed=true that ran its passes over rows of every
\* table, for a closed unlimited quota, has returned.
C2_Witness ==
    /\ pc = "returned" /\ ~analyze /\ ignore_closed /\ HasRows
    /\ q_items # {}
    /\ \E q \in QuotaIds : quotas[q].closed /\ quotas[q].size = None

\* ---- The consumption the claims speak of, from the rows of the tables.
\* Quota q covers the product of row r.
Covers(q, r) ==
    IF r.variation_id # NULL THEN r.variation_id \in quotas[q].variations
    ELSE r.item_id # NULL /\ r.item_id \in quotas[q].items
\* Row r is for a product and the sub-event of quota q.
Matches(q, r) == Covers(q, r) /\ r.subevent_id = quotas[q].subevent_id
\* Voucher r blocks quota q: it blocks, has not expired, and is for the
\* sub-event of q and a product of q or q itself.
Blocks(q, r) ==
    /\ r.block_quota
    /\ (r.valid_until = NULL \/ r.valid_until >= now_dt)
    /\ r.subevent_id = quotas[q].subevent_id
    /\ (Covers(q, r) \/ r.quota_id = q)
\* Cart position r counts: it has not expired and is not attached to a
\* blocking voucher that is still valid.
CartCounts(r) ==
    /\ r.expires >= now_dt
    /\ \/ r.voucher_id = NULL
       \/ ~VoucherOf(r).block_quota
       \/ (VoucherOf(r).valid_until # NULL /\ VoucherOf(r).valid_until < now_dt)

PaidCount(q) ==
    Cardinality({r \in order_positions : r.status = STATUS_PAID /\ Matches(q, r)})
PendingCount(q) ==
    Cardinality({r \in order_positions : r.status = STATUS_PENDING /\ Matches(q, r)})
VoucherCount(q) ==
    SumOver({r \in vouchers : Blocks(q, r)},
            [r \in vouchers |-> Greatest(r.max_usages - r.redeemed, 0)])
WaitingCount(q) ==
    Cardinality({r \in waitinglist : r.voucher_id = NULL /\ Matches(q, r)})
CartCount(q) ==
    Cardinality({r \in cart_positions : CartCounts(r) /\ Matches(q, r)})
\* The waiting list as the call counts it (not at all without count_waitinglist).
CountedWaiting(q) == IF count_waitinglist THEN WaitingCount(q) ELSE 0

\* Quota q is bounded and open.
BoundedOpen(q) == quotas[q].size # None /\ ~quotas[q].closed

\* The status C3 states for a bounded open quota q.
ExpectedStatus(q) ==
    IF PaidCount(q) >= quotas[q].size THEN AVAILABILITY_GONE
    ELSE IF PaidCount(q) + PendingCount(q) + VoucherCount(q) + CountedWaiting(q)
            >= quotas[q].size THEN AVAILABILITY_ORDERED
    ELSE IF PaidCount(q) + PendingCount(q) + VoucherCount(q) + CountedWaiting(q)
            + CartCount(q) >= quotas[q].size THEN AVAILABILITY_RESERVED
    ELSE AVAILABILITY_OK

\* C3: in a call with analyze=false that returns, every bounded open quota of
\* size >= 1 has the status of the first source, in the order paid orders,
\* pending orders, blocking vouchers, waiting list, cart positions, at which
\* the cumulative matching consumption reaches its size: GONE if the paid
\* orders reach it, else ORDERED if paid + pending + vouchers + waiting list
\* reach it, else RESERVED if the cart positions reach it, else OK.
C3_StatusByFirstSource ==
    (pc = "returned" /\ ~analyze) =>
        \A q \in QuotaIds :
            (BoundedOpen(q) /\ quotas[q].size >= 1) =>
                q \in DOMAIN result /\ result[q][1] = ExpectedStatus(q)

\* C4: in a call with analyze=false that returns, a bounded open quota with
\* result (OK, r) has r > 0 and r = size - (orders + blocking vouchers +
\* waiting list if counted + cart positions) of its sub-event, and one with
\* another status has the remaining count 0.
C4_RemainingIsSizeMinusConsumption ==
    (pc = "returned" /\ ~analyze) =>
        \A q \in QuotaIds :
            (BoundedOpen(q) /\ q \in DOMAIN result) =>
                IF result[q][1] = AVAILABILITY_OK
                THEN /\ result[q][2] > 0
                     /\ result[q][2] = quotas[q].size - (PaidCount(q) + PendingCount(q)
                            + VoucherCount(q) + CountedWaiting(q) + CartCount(q))
                ELSE result[q][2] = 0

\* C5: a quota that is in result stays in result with the same availability
\* and remaining count in every later step of the call (no pass and not the
\* final loop changes or downgrades a result once written).
C5_ResultNeverChanges ==
    [][\A q \in DOMAIN result : q \in DOMAIN result' /\ result'[q] = result[q]]_vars

\* An open quota q was resolved to ORDERED by a pass before the cart pass;
\* the cart pass then processed a cart position for a product and the
\* sub-event of both q and another quota p, which it resolved to RESERVED;
\* the call returned with q still ORDERED.
C5_Witness ==
    /\ pc = "returned" /\ ~analyze
    /\ \E q \in QuotaIds, p \in QuotaIds :
         /\ ~quotas[q].closed
         /\ q \in DOMAIN result /\ result[q] = <<AVAILABILITY_ORDERED, 0>>
         /\ p \in DOMAIN result /\ result[p] = <<AVAILABILITY_RESERVED, 0>>
         /\ \E r \in cart_positions : CartCounts(r) /\ Matches(q, r) /\ Matches(p, r)

\* ---- What a pass may take from quota q on account of the sub-event alone.
PassNames == {"orders", "vouchers", "waitinglist", "cart"}
\* The rows of the table the current pass reads that have the sub-event of q.
SubeventRows(q) ==
    LET T == CASE pc = "orders" -> order_positions
               [] pc = "vouchers" -> vouchers
               [] pc = "waitinglist" -> waitinglist
               [] pc = "cart" -> cart_positions
               [] OTHER -> {}
    IN {r \in T : r.subevent_id = quotas[q].subevent_id}
\* The units those rows stand for: one per row, the free usages of a voucher.
SubeventAmount(q) ==
    IF pc = "vouchers"
    THEN SumOver(SubeventRows(q), [r \in vouchers |-> Greatest(r.max_usages - r.redeemed, 0)])
    ELSE Cardinality(SubeventRows(q))
\* The entry of quota q in the dict f, as a set (empty without an entry).
Entry(f, q) == IF q \in DOMAIN f THEN {f[q]} ELSE {}
\* The sum of the counters of quota q in the breakdown ar.
CounterTotal(ar, q) ==
    IF q \in DOMAIN ar THEN SumOver(DOMAIN ar[q], ar[q]) ELSE 0

\* The step takes from quota q no more than the rows of its own sub-event
\* stand for, and nothing when the table has no row of its sub-event.
TakesOwnSubeventOnly(q) ==
    /\ CounterGet(size_left, q) - CounterGet(size_left', q) <= SubeventAmount(q)
    /\ CounterTotal(analyze_result', q) - CounterTotal(analyze_result, q)
           <= SubeventAmount(q)
    /\ SubeventRows(q) = {} =>
           /\ Entry(size_left', q) = Entry(size_left, q)
           /\ Entry(result', q) = Entry(result, q)
           /\ Entry(analyze_result', q) = Entry(analyze_result, q)

\* C6: in every pass, the remaining capacity and the breakdown counters of a
\* quota change by no more than the units of the rows of that pass's table
\* that have the quota's own sub-event, and when no row of the table has its
\* sub-event, the pass leaves its remaining capacity, its result and its
\* breakdown as they were: rows of another sub-event take nothing from it.
C6_SubeventScoping ==
    [][\A q \in QuotaIds : pc \in PassNames => TakesOwnSubeventOnly(q)]_vars

\* Two quotas of two different sub-events cover the same products; a cart
\* position of the sub-event of the first has exhausted the first, and the
\* second is returned OK at its full size.
C6_Witness ==
    /\ pc = "returned" /\ ~analyze
    /\ \E a \in QuotaIds, b \in QuotaIds :
         /\ quotas[a].subevent_id # NULL /\ quotas[b].subevent_id # NULL
         /\ quotas[a].subevent_id # quotas[b].subevent_id
         /\ quotas[a].items = quotas[b].items
         /\ quotas[a].variations = quotas[b].variations
         /\ \E r \in cart_positions : Matches(a, r) /\ Covers(b, r)
         /\ a \in DOMAIN result /\ result[a] = <<AVAILABILITY_RESERVED, 0>>
         /\ b \in DOMAIN result /\ result[b] = <<AVAILABILITY_OK, quotas[b].size>>

\* C7: a call with analyze=true (and count_waitinglist=true) that returns has
\* resolved no quota, and for every quota consumed by orders, vouchers, the
\* waiting list and cart positions at once its breakdown has a counter for
\* each source that is not zero and equals the count of that source: the
\* waiting list counter counts waiting list entries only, the cart counter
\* cart positions only.
C7_BreakdownComplete ==
    (pc = "returned" /\ analyze /\ count_waitinglist) =>
        /\ DOMAIN result = {}
        /\ \A q \in QuotaIds :
             (/\ PaidCount(q) + PendingCount(q) > 0
              /\ VoucherCount(q) > 0
              /\ WaitingCount(q) > 0
              /\ CartCount(q) > 0) =>
                 /\ q \in DOMAIN analyze_result
                 /\ CounterGet(analyze_result[q], "order_p") = PaidCount(q)
                 /\ CounterGet(analyze_result[q], "order_n") = PendingCount(q)
                 /\ CounterGet(analyze_result[q], "vouchers") = VoucherCount(q)
                 /\ CounterGet(analyze_result[q], "waitinglist") = WaitingCount(q)
                 /\ CounterGet(analyze_result[q], "cart") = CartCount(q)

\* C8: no call raises an exception: every call runs its passes and returns.
C8_NeverRaises == pc # "raised"

\* C9: the cart pass takes from the remaining capacity of a quota no more
\* than the cart positions for its products and sub-event that have not
\* expired and are not attached to a blocking voucher that is still valid:
\* an expired cart position, or one attached to such a voucher, takes nothing.
C9_CartPassCountsValidHoldsOnly ==
    [][\A q \in QuotaIds :
          pc = "cart" =>
              CounterGet(size_left, q) - CounterGet(size_left', q) <= CartCount(q)]_vars

\* C10: the waiting list pass takes from the remaining capacity of a quota no
\* more than the waiting list entries for its products and sub-event that
\* have no voucher: an entry with a voucher takes nothing.
C10_WaitingPassCountsEntriesWithoutVoucher ==
    [][\A q \in QuotaIds :
          pc = "waitinglist" =>
              CounterGet(size_left, q) - CounterGet(size_left', q) <= WaitingCount(q)]_vars

\* C11: the voucher pass of a call with analyze=false takes from every
\* unresolved quota with capacity left exactly the free usages
\* max(max_usages - redeemed, 0) of the blocking, unexpired vouchers for its
\* sub-event that are scoped to one of its products, to one of its variations
\* or to the quota itself (nothing for other vouchers, never a negative
\* amount), and resolves the quota to (ORDERED, 0) when what is left is 0 or
\* less.
C11_VoucherPassCountsFreeUsages ==
    [][\A q \in QuotaIds :
          (pc = "vouchers" /\ ~analyze /\ NotInResult(q, result)
               /\ CounterGet(size_left, q) > 0) =>
              IF CounterGet(size_left, q) - VoucherCount(q) <= 0
              THEN q \in DOMAIN result' /\ result'[q] = <<AVAILABILITY_ORDERED, 0>>
              ELSE /\ NotInResult(q, result')
                   /\ CounterGet(size_left', q) = CounterGet(size_left, q) - VoucherCount(q)]_vars

\* ---- The selection the claims speak of.
\* The invocation p takes an active event a that has its Event row from the
\* loop in this step and selects among its quotas.
SelectsFor(p, a) ==
    /\ sweep[p].pc = "events"
    /\ a \in sweep[p].active
    /\ a.event \in event_rows
    /\ sweep'[p].active = sweep[p].active \ {a}
\* The cache of quota q was computed more than 2 hours before t.
OlderThanCeiling(q, t) ==
    /\ quota_rows[q].cached_availability_time # NULL
    /\ quota_rows[q].cached_availability_time < t - StaleHours
\* The sub-event of quota q is unscoped, or its end (its start, if it has no
\* end) is not older than 14 days at t.
SubeventNotOld(q, t) ==
    \/ quota_rows[q].subevent_id = NULL
    \/ (IF quota_rows[q].date_to # NULL THEN quota_rows[q].date_to
        ELSE quota_rows[q].date_from) >= t - Hours(SubeventDays)
\* The cache of quota q is newer than the activity of a and the 2-hour ceiling at t.
NewerThanBoth(q, a, t) ==
    /\ quota_rows[q].cached_availability_time # NULL
    /\ quota_rows[q].cached_availability_time > a.last_activity
    /\ quota_rows[q].cached_availability_time > t - StaleHours

\* C12 as stated: every quota whose cache is older than 2 hours is selected
\* by a sweep, whatever the activity of its event (the query of the active
\* events returns its event, and the selection for its event selects it), and
\* a quota whose cache is newer than both the latest activity of its event
\* and the 2-hour ceiling is not selected.
C12_StaleIsSelected ==
    [][\A p \in Sweeps :
          /\ (sweep[p].pc = "start" /\ sweep'[p].pc = "events") =>
                \A q \in QuotaIds :
                    (OlderThanCeiling(q, clock) /\ quota_rows[q].event_id \in event_rows) =>
                        \E a \in sweep'[p].active : a.event = quota_rows[q].event_id
          /\ \A a \in sweep[p].active :
                SelectsFor(p, a) =>
                    \A q \in QuotaIds :
                        quota_rows[q].event_id = a.event =>
                            /\ OlderThanCeiling(q, clock) => q \in sweep'[p].quotas
                            /\ NewerThanBoth(q, a, clock) => q \notin sweep'[p].quotas]_vars

\* C12 amended: when a sweep selects among the quotas of an event with a log
\* entry of the last 7 days, it selects every quota whose cache is older than
\* 2 hours and whose sub-event is unscoped or not older than 14 days, also
\* when the event has had no activity since the cache was computed; it does
\* not select a quota whose cache is newer than both the latest activity of
\* the event and the 2-hour ceiling.
C12_StaleOfActiveEventIsSelected ==
    [][\A p \in Sweeps :
          \A a \in sweep[p].active :
              SelectsFor(p, a) =>
                  \A q \in QuotaIds :
                      quota_rows[q].event_id = a.event =>
                          /\ (OlderThanCeiling(q, clock) /\ SubeventNotOld(q, clock)) =>
                                 q \in sweep'[p].quotas
                          /\ NewerThanBoth(q, a, clock) => q \notin sweep'[p].quotas]_vars

\* A sweep has selected a quota whose cache is older than 2 hours and whose
\* event has had no activity since, and has not selected a quota of the same
\* event whose cache is newer than the latest activity and the ceiling.
C12_Witness ==
    \E p \in Sweeps, q \in QuotaIds, r \in QuotaIds :
        /\ sweep[p].pc = "quotas"
        /\ q \in sweep[p].quotas
        /\ OlderThanCeiling(q, clock)
        /\ \A l \in log_entries :
               l.event = quota_rows[q].event_id =>
                   l.datetime < quota_rows[q].cached_availability_time
        /\ quota_rows[r].event_id = quota_rows[q].event_id
        /\ r \notin sweep[p].quotas
        /\ quota_rows[r].cached_availability_time # NULL
        /\ quota_rows[r].cached_availability_time > clock - StaleHours
        /\ \A l \in log_entries :
               l.event = quota_rows[r].event_id =>
                   l.datetime < quota_rows[r].cached_availability_time

\* C13: a failure while one quota or event is processed does not abort the
\* sweep: when an invocation has ended by an exception of the availability
\* computation of one quota, no other quota it selected is left uncomputed,
\* and no active event it has not visited yet has a quota to select (a
\* missing Event row only skips that event).
C13_FailureDoesNotAbortSweep ==
    \A p \in Sweeps :
        sweep[p].pc = "raised" =>
            /\ sweep[p].quotas = {}
            /\ \A a \in sweep[p].active :
                   a.event \in event_rows => Selected(a, clock) = {}

\* C14: the outcome of a call with analyze=false is a function of its
\* arguments and of the data: in whatever order the store returns the lines of
\* each lookup (and the loops take the quotas), the call ends as the one
\* computation Outcome on the same data does, with the same result; and no
\* step of the call changes a row of the reservation tables or of the quotas.
C14_ResultIsFunctionOfData ==
    /\ [](((~analyze) /\ pc \in {"returned", "raised"}) =>
              /\ pc = Outcome(ReadsOf(Database)).pc
              /\ exc = Outcome(ReadsOf(Database)).exc
              /\ pc = "returned" => result = Outcome(ReadsOf(Database)).result)
    /\ [][tables' = tables]_vars

\* A call has returned after its voucher lookup returned two lines, for two
\* vouchers of different scopes with one free usage each, which the store
\* may return in either order, and the two together exhausted a quota of size 2.
C14_Witness ==
    /\ pc = "returned" /\ ~analyze
    /\ \E q \in QuotaIds, v \in vouchers, w \in vouchers :
         /\ quotas[q].size = 2
         /\ q \in DOMAIN result /\ result[q] = <<AVAILABILITY_ORDERED, 0>>
         /\ v.quota_id = q /\ w.quota_id = NULL /\ w.variation_id = NULL
         /\ Blocks(q, v) /\ Blocks(q, w)
         /\ v.max_usages - v.redeemed = 1 /\ w.max_usages - w.redeemed = 1
         /\ Cardinality(vouchers) = 2

\* The waiting lists a data state may hold instead of its own.
OtherWaitinglists ==
    SUBSET {WaitingListEntryRow(i, NULL, TargetOf(i), 1) : i \in ItemIds}

\* C15: a call with count_waitinglist=false (and analyze=false) never enters
\* the waiting list pass: the cart pass follows the voucher pass directly,
\* and the call ends with the result it has for every other waiting list on
\* otherwise the same data.
C15_WaitinglistSkipped ==
    /\ []((~count_waitinglist /\ ~analyze /\ pc \in {"returned", "raised"}) =>
             \A w \in OtherWaitinglists :
                 LET o == Outcome(ReadsOf([Database EXCEPT !.waitinglist = w]))
                 IN /\ pc = o.pc
                    /\ pc = "returned" => result = o.result)
    /\ [][~count_waitinglist =>
             /\ pc' # "waitinglist"
             /\ (pc = "vouchers" /\ pc' \notin {"returned", "raised"}) => pc' = "cart"]_vars

\* A call with count_waitinglist=false has returned a quota of size 1 as
\* RESERVED: the waiting list holds an entry without voucher for its product
\* and sub-event, which the waiting list pass would have counted (ORDERED),
\* and the cart pass counted a cart position.
C15_Witness ==
    /\ pc = "returned" /\ ~analyze /\ ~count_waitinglist
    /\ \E q \in QuotaIds :
         /\ quotas[q].size = 1
         /\ q \in DOMAIN result /\ result[q] = <<AVAILABILITY_RESERVED, 0>>
         /\ \E r \in waitinglist : r.voucher_id = NULL /\ Matches(q, r)
         /\ \E r \in cart_positions : CartCounts(r) /\ Matches(q, r)

\* C16 as stated: when a request changes the tables between two steps of a
\* call (analyze=false) that returns, the result of every quota is the one
\* a call returns on the tables as they stood at one moment: before the
\* request, or after it.
C16_ResultOfOneMoment ==
    (pc = "returned" /\ ~analyze) =>
        \E db \in {data_before, Database} :
            /\ Outcome(ReadsOf(db)).pc = "returned"
            /\ result = Outcome(ReadsOf(db)).result

\* C16 amended: when a request changes the tables between two steps of a
\* call (analyze=false), the call ends as the computation does in which each
\* pass reads the tables as they stood when that pass ran (the passes before
\* the request the tables before it, the later passes the tables after it),
\* with the same result.
C16_ResultOfPassMoments ==
    (~analyze /\ pc \in {"returned", "raised"}) =>
        /\ pc = Outcome(ReadsOfCall).pc
        /\ pc = "returned" => result = Outcome(ReadsOfCall).result

\* A waiting list entry was given a blocking voucher after the voucher pass
\* and before the waiting list pass of a call that has returned a quota of
\* size 1 as (OK, 1), while a call on the tables before the request and a
\* call on the tables after it both return it as ORDERED.
C16_Witness ==
    /\ pc = "returned" /\ ~analyze /\ mutated_at = "waitinglist"
    /\ \E q \in QuotaIds :
         /\ q \in DOMAIN result /\ result[q] = <<AVAILABILITY_OK, 1>>
         /\ Outcome(ReadsOf(data_before)).result[q] = <<AVAILABILITY_ORDERED, 0>>
         /\ Outcome(ReadsOf(Database)).result[q] = <<AVAILABILITY_ORDERED, 0>>

\* The cached (status, remaining, computedAt) of a quota row.
CachedOf(row) ==
    [state |-> row.cached_availability_state, number |-> row.cached_availability_number,
     time |-> row.cached_availability_time]
\* The invocation p writes the cache in this step.
Writes(p) == sweep[p].pc = "write" /\ sweep'[p].pc # "write"

\* C17 as stated: the cache writes of two overlapping invocations commute:
\* two invocations that are both about to write the cache of the same quota
\* write the same (status, remaining, computedAt), so the order in which the
\* writes land does not show, and no write leaves a cache entry that is
\* older than the one it overwrote.
C17_WritesCommute ==
    /\ [](\A p \in Sweeps, r \in Sweeps :
              (sweep[p].pc = "write" /\ sweep[r].pc = "write" /\ sweep[p].q = sweep[r].q) =>
                  sweep[p].computed = sweep[r].computed)
    /\ [][\A p \in Sweeps :
              Writes(p) =>
                  quota_rows'[sweep[p].q].cached_availability_time
                      >= quota_rows[sweep[p].q].cached_availability_time]_vars

\* C17 amended: a cache write is an unconditional overwrite keyed by the
\* quota: the write of an invocation leaves, as the cache of its quota,
\* exactly the (status, remaining, computedAt) that invocation computed,
\* whatever the entry held before, and changes the cache of no other quota;
\* no other step changes a cache entry. Of two overlapping writes the one
\* that lands last stays.
C17_LastWriteStays ==
    [][\A p \in Sweeps :
          /\ Writes(p) =>
                /\ CachedOf(quota_rows'[sweep[p].q]) = sweep[p].computed
                /\ \A q \in QuotaIds \ {sweep[p].q} : quota_rows'[q] = quota_rows[q]
          /\ (\A r \in Sweeps : ~Writes(r)) => quota_rows' = quota_rows]_vars

\* Two overlapping invocations have both computed and written the cache of
\* the same quota; the one that computed earlier wrote last, and its older
\* entry is what the cache holds.
C17_Witness ==
    \E p \in Sweeps, r \in Sweeps :
        /\ p # r
        /\ sweep[p].pc \in {"quotas", "events"} /\ sweep[r].pc \in {"quotas", "events"}
        /\ sweep[p].q # NULL /\ sweep[p].q = sweep[r].q
        /\ sweep[p].computed.time # NULL /\ sweep[r].computed.time # NULL
        /\ sweep[p].computed.time < sweep[r].computed.time
        /\ CachedOf(quota_rows[sweep[p].q]) = sweep[p].computed

\* ---- Freshness.
\* The time of the latest log entry of event e.
LatestActivity(e) == MaxOf({l.datetime : l \in {x \in log_entries : x.event = e}})
\* Quota q is one the sweep is to keep fresh: its event exists and has a log
\* entry of the last 7 days, and its sub-event is unscoped or not older than
\* 14 days.
KeptFresh(q) ==
    /\ quota_rows[q].event_id \in event_rows
    /\ \E l \in log_entries :
           l.event = quota_rows[q].event_id /\ l.datetime > clock - Hours(ActiveDays)
    /\ SubeventNotOld(q, clock)
\* The cache of quota q is not older than the latest activity of its event.
Fresh(q) ==
    /\ quota_rows[q].cached_availability_time # NULL
    /\ quota_rows[q].cached_availability_time >= LatestActivity(quota_rows[q].event_id)

\* C18: with the sweep triggered again and again, once the activity has
\* ceased every quota the sweep is to keep fresh has, from some time on, a
\* cache entry that is not older than the latest activity of its event; and
\* an invocation that is between two events or has ended has written every
\* quota it selected.
C18_EventuallyFresh ==
    /\ \A q \in QuotaIds : <>[](KeptFresh(q) => Fresh(q))
    /\ [](\A p \in Sweeps : sweep[p].pc \in {"events", "idle"} => sweep[p].quotas = {})

\* C19: the mapping returned by a call without analyze has an entry for
\* every quota passed in, a bounded open quota of size 0 and a quota that no
\* line matches included.
C19_ResultIsTotal ==
    (pc = "returned" /\ ~analyze) => \A q \in QuotaIds : q \in DOMAIN result

\* C20: in every language the iteration of CachedCountries ends without an
\* error, and two iterations in the same language yield the same sequence,
\* whichever of the computation, the cache and _cached_lists served them.
C20_SameListFromEverySource ==
    /\ \A p \in Procs : iteration[p].pc # "raised"
    /\ \A p, r \in Procs :
           (/\ iteration[p].pc = "done" /\ iteration[r].pc = "done"
            /\ iteration[p].language = iteration[r].language)
           => iteration[p].yielded = iteration[r].yielded

====
